---- MODULE Spec2Model ----
(***************************************************************************)
(* Model of the GitHub-settings compliance plugin: the plugin's Configure  *)
(* and Eval handlers (main.go), the two DataFetcher.FetchData revisions    *)
(* (the config-based one, main.go:220, and the client-based paginating     *)
(* one, internal/data.go:30) and the three PolicyEvaluator.Eval revisions  *)
(* (internal/eval.go:37, internal/eval.go:219, unnamed/part_000:41).       *)
(*                                                                         *)
(* One thread of control (pc): the host calls Configure and Eval on the    *)
(* plugin; the package tests call FetchData and PolicyEvaluator.Eval       *)
(* directly.  The platform API, the policy engine and the evidence sink    *)
(* are external: their outcomes are nondeterministic or fixed tables.      *)
(***************************************************************************)
EXTENDS Integers, Sequences, FiniteSets, TLC

VARIABLES
  pc,           \* position of the thread of control
  config,       \* CompliancePlugin.config (map[string]string)
  configureRet, \* what the last Configure returned and whether it logged "errored"
  request,      \* EvalRequest.PolicyPaths of the running plugin Eval
  requests,     \* log of the calls made to the platform API, in order
  platform,     \* number of teams the platform holds for the organization
  fetch,        \* frame of the running FetchData
  fetchRet,     \* (data, steps, err) returned by FetchData
  pe,           \* the PolicyEvaluator object
  frame,        \* locals of the running PolicyEvaluator.Eval
  invocations,  \* log of the policy-engine invocations, in order
  evalRet,      \* (status, err) returned by PolicyEvaluator.Eval
  sinkCalls,    \* log of the evidence-sink calls (CreateObservations / CreateFindings)
  response,     \* (EvalResponse.Status, err) returned by CompliancePlugin.Eval
  earlier       \* the collections the evaluator held when each earlier Eval on it returned

vars == <<pc, config, configureRet, request, requests, platform, fetch, fetchRet, pe, frame,
          invocations, evalRet, sinkCalls, response, earlier>>

----------------------------------------------------------------------------
(* Bounds of the model *)

MaxPaths == 2      \* longest bundle-path sequence handed to Eval
MaxTeams == 240    \* most teams the platform holds
MaxEvalCalls == 2  \* most Eval calls made on one PolicyEvaluator

(* Program constant: github.ListOptions{PerPage: 100} *)
PerPage == 100

----------------------------------------------------------------------------
(* Go error values.  nil, a leaf error, fmt.Errorf("...: %w", err) and the  *)
(* joinError of errors.Join, all as records of one shape.                   *)

NilErr == [kind |-> "nil", msg |-> "", errs |-> <<>>]

LeafErr(m) == [kind |-> "leaf", msg |-> m, errs |-> <<>>]

WrapErr(m, e) == [kind |-> "wrap", msg |-> m, errs |-> <<e>>]

(* errors.Join(a, b): nil arguments are discarded; nil when none is left;   *)
(* otherwise a joinError holding the remaining ones in argument order.      *)
(* JoinErrorsKeepLast is the assignment accumulatedErrors = err instead.    *)
JoinErrorsKeepLast(a, b) == IF b = NilErr THEN a ELSE b

JoinErrors(a, b) ==
  LET kept == SelectSeq(<<a, b>>, LAMBDA e : e # NilErr)
  IN  IF kept = <<>> THEN NilErr
      ELSE [kind |-> "join", msg |-> "", errs |-> kept]

----------------------------------------------------------------------------
(* Strings the code inspects character by character are tuples of           *)
(* one-character strings.                                                   *)

Letters ==
  {"a","b","c","d","e","f","g","h","i","j","k","l","m","n","o","p","q","r","s",
   "t","u","v","w","x","y","z","A","B","C","D","E","F","G","H","I","J","K","L",
   "M","N","O","P","Q","R","S","T","U","V","W","X","Y","Z"}

Digits == {"0","1","2","3","4","5","6","7","8","9"}

(* regexp "^[A-Za-z0-9._-]+$" *)
OrgRegexMatch(s) ==
  /\ Len(s) >= 1
  /\ \A i \in 1..Len(s) : s[i] \in Letters \cup Digits \cup {".", "_", "-"}

RECURSIVE GetScheme(_, _)
(* net/url getScheme, scanning from index i: the length of the scheme       *)
(* (0: none) or -1 for "missing protocol scheme" (a colon at index 1).      *)
GetScheme(s, i) ==
  IF i > Len(s) THEN 0
  ELSE IF s[i] \in Letters THEN GetScheme(s, i + 1)
  ELSE IF s[i] \in Digits \cup {"+", "-", "."}
       THEN (IF i = 1 THEN 0 ELSE GetScheme(s, i + 1))
  ELSE IF s[i] = ":" THEN (IF i = 1 THEN -1 ELSE i - 1)
  ELSE 0

(* url.ParseRequestURI(value) succeeds: "*", or a scheme followed by        *)
(* anything, or a path starting with "/".                                   *)
ParseRequestURIOk(s) ==
  /\ s # <<>>
  /\ \/ s = <<"*">>
     \/ LET n == GetScheme(s, 1)
        IN  /\ n >= 0
            /\ \/ n > 0
               \/ s[1] = "/"

ConfigKeys == {"api_url", "api_key", "organization"}

(* GithubConfigValidators[key](value) returns nil *)
ValidatorOk(key, value) ==
  IF key = "api_url" THEN Len(value) # 0 /\ ParseRequestURIOk(value)
  ELSE IF key = "api_key" THEN Len(value) # 0
  ELSE Len(value) # 0 /\ OrgRegexMatch(value)

(* The "errored" flag of Configure after its loop over the validators *)
ConfigErrored(cfg) ==
  \E k \in ConfigKeys : k \notin DOMAIN cfg \/ ~ValidatorOk(k, cfg[k])

(* config[key] of a Go map: the zero value "" when the key is absent *)
CfgGet(cfg, key) == IF key \in DOMAIN cfg THEN cfg[key] ELSE <<>>

NilConfig == [k \in {} |-> <<>>]

(* Configuration values the host may pass *)
ApiKeyValues == {<<>>, <<"t","o","k">>}
ApiUrlValues == {<<>>, <<"h","t","t","p",":","/","/","g","h">>, <<"g","h"," ","x">>}
OrgValues    == {<<>>, <<"t","e","s","t","-","o","r","g">>, <<"a"," ","b">>}

ValuesOf(key) ==
  IF key = "api_url" THEN ApiUrlValues
  ELSE IF key = "api_key" THEN ApiKeyValues
  ELSE OrgValues

Configs ==
  UNION {[d -> UNION {ValuesOf(k) : k \in d}] : d \in SUBSET ConfigKeys}

PassedConfigs == {c \in Configs : \A k \in DOMAIN c : c[k] \in ValuesOf(k)}

----------------------------------------------------------------------------
(* github.Organization as the platform returns it; the nil pointer is the   *)
(* record with isNil set, whose getters return the zero value.              *)

NilOrg == [isNil |-> TRUE, login |-> <<>>, name |-> <<>>, url |-> <<>>, billing |-> <<>>]

OrgOf(id) ==
  [isNil |-> FALSE, login |-> id, name |-> <<"T", "h", "e", " ">> \o id,
   url |-> <<"/", "o", "r", "g", "s", "/">> \o id, billing |-> <<"b", "@">> \o id]

GetLogin(o) == IF o.isNil THEN <<>> ELSE o.login
GetName(o) == IF o.isNil THEN <<>> ELSE o.name
GetURL(o) == IF o.isNil THEN <<>> ELSE o.url
GetBillingEmail(o) == IF o.isNil THEN <<>> ELSE o.billing

(* The login of the organization of the tests and of the README *)
TestOrgId == <<"t", "e", "s", "t", "-", "o", "r", "g">>

(* Steps FetchData narrates: the config-based revision appends two, the     *)
(* client-based revision three.                                             *)
StepsLegacy ==
  << "Configure the Github Client with the Personal Access Token",
     "Query the organization endpoint" >>

StepsClient == StepsLegacy \o << "Get Teams" >>

(* The platform's answer to Teams.ListTeams(opt): it holds `total` teams,   *)
(* numbered 1..total, serves PerPage of them a page (page 0 is page 1) and  *)
(* names the next page, 0 after the last.                                   *)
PageNo(page) == IF page = 0 THEN 1 ELSE page

PlatformTeams(total, page) ==
  LET p    == PageNo(page)
      from == (p - 1) * PerPage
      to   == IF p * PerPage < total THEN p * PerPage ELSE total
      n    == IF to > from THEN to - from ELSE 0
  IN  [teams |-> [i \in 1..n |-> from + i],
       NextPage |-> IF p * PerPage < total THEN p + 1 ELSE 0]

(* allTeams = append(allTeams, teams...) *)
AppendTeamsOverwrite(allTeams, teams) == teams

AppendTeams(allTeams, teams) == allTeams \o teams

(* paginationOpt.Page = resp.NextPage *)
FollowNextPageStuck(page, resp) == page

FollowNextPage(page, resp) == resp.NextPage

----------------------------------------------------------------------------
(* The policy engine (policyManager.PolicyProcessor.GenerateResults) is     *)
(* external and deterministic: what it returns is a table over the bundle   *)
(* paths.  "bad" fails with no verdict, "partial" fails after one verdict,  *)
(* "ok_a" and "ok_b" succeed and share the verdict "v1".                    *)

PathSet == {"ok_a", "ok_b", "bad", "partial"}

EngineVerdicts(path) ==
  IF path = "ok_a" THEN << "v1" >>
  ELSE IF path = "ok_b" THEN << "v1", "v2" >>
  ELSE IF path = "partial" THEN << "v3" >>
  ELSE << >>

EngineErr(path) ==
  IF path \in {"bad", "partial"} THEN LeafErr(path) ELSE NilErr

Tagged(tag, verdicts) == [i \in 1..Len(verdicts) |-> << tag, verdicts[i] >>]

PathSeqs == UNION {[1..n -> PathSet] : n \in 0..MaxPaths}

Variants == {"evidence", "obsfind", "settings"}

(* The provenance scaffolding each revision builds before its loop *)
Actors ==
  << [title |-> "The Continuous Compliance Framework", type |-> "assessment-platform"],
     [title |-> "Continuous Compliance Framework - Github Settings plugin", type |-> "tool"] >>

Scaffolding(variant, org) ==
  IF variant = "evidence" THEN
    [subjects |-> << [type |-> "inventory-item", identifier |-> "github-organization/", of |-> GetLogin(org)],
                     [type |-> "component", identifier |-> "common-components/github-organization", of |-> <<>>],
                     [type |-> "component", identifier |-> "common-components/version-control", of |-> <<>>] >>,
     components |-> << "common-components/github-organization", "common-components/version-control" >>,
     inventory |-> << [identifier |-> "github-organization/", of |-> GetLogin(org), name |-> GetName(org),
                       url |-> GetURL(org),
                       implemented |-> << "common-components/github-organization",
                                          "common-components/version-control" >>] >>,
     actors |-> Actors]
  ELSE IF variant = "obsfind" THEN
    [subjects |-> << [type |-> "software-organization", name |-> GetName(org), path |-> GetLogin(org),
                      url |-> GetURL(org)] >>,
     components |-> << "common-components/github-organization", "common-components/version-control" >>,
     inventory |-> << >>,
     actors |-> Actors]
  ELSE
    [subjects |-> << [type |-> "software-organization", name |-> GetLogin(org), url |-> GetURL(org),
                      billing |-> GetBillingEmail(org)] >>,
     components |-> << "common-components/template" >>,
     inventory |-> << >>,
     actors |-> Actors]

(* The activities Eval builds: one "Compile Results" activity *)
CompileActivities ==
  << [title |-> "Compile Results",
      steps |-> << "Compile policy bundle", "Execute policy bundle" >>] >>

(* stepActivities := append(activities, &proto.Activity{Title: "Collect data", ...}) *)
CollectActivity(steps) == << [title |-> "Collect data", steps |-> steps] >>

(* ContextMapWithoutPath is the map of the evidence revision, built for    *)
(* every revision: no entry names the bundle.                              *)
ContextMapWithoutPath(variant, org, policyPath) ==
  [k \in {"provider", "type", "organization"} |->
     IF k = "provider" THEN "github"
     ELSE IF k = "type" THEN "organization"
     ELSE GetLogin(org)]

(* The per-bundle context map handed to NewPolicyProcessor *)
ContextMap(variant, org, policyPath) ==
  IF variant = "evidence" THEN
    [k \in {"provider", "type", "organization"} |->
       IF k = "provider" THEN "github"
       ELSE IF k = "type" THEN "organization"
       ELSE GetLogin(org)]
  ELSE
    [k \in {"provider", "type", "organization-name", "_policy_path"} |->
       IF k = "provider" THEN "github"
       ELSE IF k = "type" THEN "organization"
       ELSE IF k = "organization-name"
            THEN (IF variant = "obsfind" THEN GetName(org) ELSE GetLogin(org))
       ELSE policyPath]

----------------------------------------------------------------------------
(* Values of the frames when nothing runs *)

NoFetch ==
  [variant |-> "none", organization |-> <<>>, steps |-> <<>>, org |-> NilOrg,
   allTeams |-> <<>>, page |-> 0]

NoFetchRet ==
  [returned |-> FALSE, hasData |-> FALSE, org |-> NilOrg, teams |-> <<>>,
   steps |-> <<>>, err |-> NilErr]

NoPe ==
  [variant |-> "none", stepActivities |-> <<>>, evidences |-> <<>>,
   observations |-> <<>>, findings |-> <<>>]

NoFrame ==
  [variant |-> "none", caller |-> "none", org |-> NilOrg, policyPaths |-> <<>>,
   idx |-> 0, evidences |-> <<>>, observations |-> <<>>, findings |-> <<>>,
   accumulatedErrors |-> NilErr, evalStatus |-> "none",
   scaffolding |-> Scaffolding("settings", NilOrg), activities |-> <<>>]

NoRet == [returned |-> FALSE, status |-> "none", err |-> NilErr]

Init ==
  /\ pc = "idle"
  /\ config = NilConfig
  /\ configureRet = [called |-> FALSE, errored |-> FALSE, err |-> NilErr]
  /\ request = <<>>
  /\ requests = <<>>
  /\ platform = 0
  /\ fetch = NoFetch
  /\ fetchRet = NoFetchRet
  /\ pe = NoPe
  /\ frame = NoFrame
  /\ invocations = <<>>
  /\ evalRet = NoRet
  /\ sinkCalls = <<>>
  /\ response = NoRet
  /\ earlier = <<>>

UnchangedRun ==
  UNCHANGED <<earlier, request, requests, platform, fetch, fetchRet, pe, frame, invocations,
              evalRet, sinkCalls, response>>

----------------------------------------------------------------------------
(* CompliancePlugin.Configure (main.go:77-108): validates, logs, stores the *)
(* passed configuration whatever the validation found, returns a nil error. *)

ConfigureError(cfg) == NilErr

Configure(cfg) ==
  /\ pc = "idle"
  /\ ~configureRet.called
  /\ config' = cfg
  /\ configureRet' = [called |-> TRUE, errored |-> ConfigErrored(cfg),
                      err |-> ConfigureError(cfg)]
  /\ pc' = "idle"
  /\ UnchangedRun

----------------------------------------------------------------------------
(* PolicyEvaluator *)

(* NewPolicyEvaluator(ctx, logger, stepActivities) *)
NewPolicyEvaluator(variant, stepActivities) ==
  [variant |-> variant, stepActivities |-> stepActivities, evidences |-> <<>>,
   observations |-> <<>>, findings |-> <<>>]

(* Eval up to its loop: the locals and the scaffolding, built once *)
EvalPrologue(variant, caller, org, policyPaths) ==
  [variant |-> variant, caller |-> caller, org |-> org, policyPaths |-> policyPaths,
   idx |-> 1, evidences |-> <<>>, observations |-> <<>>, findings |-> <<>>,
   accumulatedErrors |-> NilErr, evalStatus |-> "SUCCESS",
   scaffolding |-> Scaffolding(variant, org), activities |-> CompileActivities]

(* `for _, policyPath := range policyPaths`: the index after an iteration   *)
(* that ended with err; the loop has no break and no retry.                 *)
NextIndexAbortOnError(idx, err, n) == IF err # NilErr THEN n + 1 ELSE idx + 1

NextIndex(idx, err, n) == idx + 1

(* evidences = slices.Concat(evidences, evidence): done before err is read  *)
ConcatResultsDropOnError(acc, results, err) ==
  IF err # NilErr THEN <<>> ELSE acc \o results

(* ConcatResultsUnique is the set-union variant: results already held are   *)
(* not appended again.                                                      *)
ConcatResultsUnique(acc, results, err) ==
  acc \o SelectSeq(results, LAMBDA r : \A k \in 1..Len(acc) : acc[k] # r)

ConcatResults(acc, results, err) == acc \o results

(* if err != nil { accumulatedErrors = errors.Join(accumulatedErrors, err) } *)
AccumulateSwallow(acc, err) == acc

Accumulate(acc, err) == IF err # NilErr THEN JoinErrors(acc, err) ELSE acc

(* `return evalStatus, accumulatedErrors`: evalStatus is never reassigned *)
ReturnedStatusFromError(f) ==
  IF f.accumulatedErrors # NilErr THEN "FAILURE" ELSE f.evalStatus

ReturnedStatus(f) == f.evalStatus

(* ... and accumulatedErrors is returned as it stands, nil for no bundles *)
ReturnedErrorRejectEmpty(f) ==
  IF f.policyPaths = <<>> THEN LeafErr("no policy paths") ELSE f.accumulatedErrors

ReturnedError(f) == f.accumulatedErrors

(* The scaffolding and the activities NewPolicyProcessor is given in an     *)
(* iteration: the locals built before the loop, which no iteration assigns. *)
PassedScaffoldingPerBundle(f, policyPath) ==
  [f.scaffolding EXCEPT !.components = Append(@, policyPath)]

PassedScaffolding(f, policyPath) == f.scaffolding

PassedActivities(f, stepActivities) == f.activities

(* One iteration of the bundle loop: NewPolicyProcessor + GenerateResults *)
EvalIterate ==
  /\ pc = "eval_loop"
  /\ frame.idx <= Len(frame.policyPaths)
  /\ LET policyPath == frame.policyPaths[frame.idx]
         verdicts   == EngineVerdicts(policyPath)
         err        == EngineErr(policyPath)
     IN  /\ invocations' = Append(invocations,
              [path |-> policyPath,
               context |-> ContextMap(frame.variant, frame.org, policyPath),
               scaffolding |-> PassedScaffolding(frame, policyPath),
               activities |-> PassedActivities(frame, pe.stepActivities),
               data |-> frame.org])
         /\ frame' = [frame EXCEPT
              !.idx = NextIndex(@, err, Len(frame.policyPaths)),
              !.evidences = IF frame.variant = "evidence"
                            THEN ConcatResults(@, Tagged("evidence", verdicts), err) ELSE @,
              !.observations = IF frame.variant # "evidence"
                               THEN ConcatResults(@, Tagged("observation", verdicts), err) ELSE @,
              !.findings = IF frame.variant # "evidence"
                           THEN ConcatResults(@, Tagged("finding", verdicts), err) ELSE @,
              !.accumulatedErrors = Accumulate(@, err)]
  /\ pc' = "eval_loop"
  /\ UNCHANGED <<earlier, config, configureRet, request, requests, platform, fetch, fetchRet, pe,
                 evalRet, sinkCalls, response>>

(* After the loop: publish the collections on the evaluator and return.    *)
(* EvalFinishAppending is the variant that appends to what the evaluator    *)
(* already holds instead of replacing it.                                   *)
EvalFinishAppending ==
  /\ pc = "eval_loop"
  /\ frame.idx > Len(frame.policyPaths)
  /\ pe' = [pe EXCEPT !.evidences = @ \o frame.evidences,
                      !.observations = @ \o frame.observations,
                      !.findings = @ \o frame.findings]
  /\ evalRet' = [returned |-> TRUE, status |-> frame.evalStatus,
                 err |-> frame.accumulatedErrors]
  /\ pc' = IF frame.caller = "plugin" THEN "after_eval" ELSE "returned"
  /\ UNCHANGED <<earlier, config, configureRet, request, requests, platform, fetch,
                 fetchRet, frame, invocations, sinkCalls, response>>

EvalFinish ==
  /\ pc = "eval_loop"
  /\ frame.idx > Len(frame.policyPaths)
  /\ pe' = [pe EXCEPT !.evidences = frame.evidences,
                      !.observations = frame.observations,
                      !.findings = frame.findings]
  /\ evalRet' = [returned |-> TRUE, status |-> ReturnedStatus(frame),
                 err |-> ReturnedError(frame)]
  /\ pc' = IF frame.caller = "plugin" THEN "after_eval" ELSE "returned"
  /\ UNCHANGED <<earlier, config, configureRet, request, requests, platform, fetch, fetchRet, frame,
                 invocations, sinkCalls, response>>

(* The package test: NewPolicyEvaluator with no step activities, then Eval *)
TestEval(variant, org, policyPaths) ==
  /\ pc = "idle"
  /\ ~configureRet.called
  /\ pe' = NewPolicyEvaluator(variant, <<>>)
  /\ frame' = EvalPrologue(variant, "test", org, policyPaths)
  /\ pc' = "eval_loop"
  /\ UNCHANGED <<earlier, config, configureRet, request, requests, platform, fetch, fetchRet,
                 invocations, evalRet, sinkCalls, response>>

(* Eval called once more on the same evaluator, with the same snapshot and  *)
(* the same bundle paths; what the evaluator holds from the call before is  *)
(* remembered in `earlier`.                                                 *)
HeldCollections(e) ==
  [evidences |-> e.evidences, observations |-> e.observations, findings |-> e.findings]

TestEvalAgain ==
  /\ pc = "returned"
  /\ frame.caller = "test"
  /\ evalRet.returned
  /\ Len(earlier) + 1 < MaxEvalCalls
  /\ earlier' = Append(earlier, HeldCollections(pe))
  /\ frame' = EvalPrologue(pe.variant, "test", frame.org, frame.policyPaths)
  /\ invocations' = <<>>
  /\ evalRet' = NoRet
  /\ pc' = "eval_loop"
  /\ UNCHANGED <<config, configureRet, request, requests, platform, fetch, fetchRet, pe,
                 sinkCalls, response>>

----------------------------------------------------------------------------
(* DataFetcher.FetchData, client-based revision (internal/data.go:30-77)    *)

(* What FetchData returns when a request failed: `return nil, nil, err` *)
FailedFetchKeepingSteps(f, err) ==
  [returned |-> TRUE, hasData |-> FALSE, org |-> NilOrg, teams |-> <<>>,
   steps |-> f.steps, err |-> err]

FailedFetch(f, err) ==
  [returned |-> TRUE, hasData |-> FALSE, org |-> NilOrg, teams |-> <<>>,
   steps |-> <<>>, err |-> err]

(* `return &GithubData{Settings: org, Teams: allTeams}, steps, nil` *)
CompletedFetch(f, allTeams) ==
  [returned |-> TRUE, hasData |-> TRUE, org |-> f.org, teams |-> allTeams,
   steps |-> f.steps, err |-> NilErr]

(* The integration test calls FetchData(ctx, organization); the three Steps *)
(* are appended before any request is made.                                 *)
TestFetchData(organization, total) ==
  /\ pc = "idle"
  /\ ~configureRet.called
  /\ platform' = total
  /\ fetch' = [variant |-> "client", organization |-> organization,
               steps |-> StepsClient, org |-> NilOrg, allTeams |-> <<>>, page |-> 0]
  /\ pc' = "org_get"
  /\ UNCHANGED <<earlier, config, configureRet, request, requests, fetchRet, pe, frame,
                 invocations, evalRet, sinkCalls, response>>

(* df.client.Organizations.Get and its error check (data.go:50-57) *)
OrganizationsGet ==
  /\ pc = "org_get"
  /\ \E ok \in BOOLEAN :
       /\ requests' = Append(requests,
            [api |-> "Organizations.Get", org |-> fetch.organization, page |-> 0,
             ok |-> ok])
       /\ IF ok
          THEN /\ fetch' = [fetch EXCEPT !.org = OrgOf(fetch.organization)]
               /\ pc' = "list_teams"
               /\ UNCHANGED fetchRet
          ELSE /\ fetchRet' = FailedFetch(fetch, LeafErr("Organizations.Get"))
               /\ pc' = "returned"
               /\ UNCHANGED fetch
  /\ UNCHANGED <<earlier, config, configureRet, request, platform, pe, frame, invocations,
                 evalRet, sinkCalls, response>>

(* One iteration of the pagination loop (data.go:59-71); the iteration that *)
(* reads NextPage = 0 leaves the loop and returns (data.go:73-76).          *)
ListTeams ==
  /\ pc = "list_teams"
  /\ \E ok \in BOOLEAN :
       /\ requests' = Append(requests,
            [api |-> "Teams.ListTeams", org |-> fetch.organization, page |-> fetch.page,
             ok |-> ok])
       /\ IF ~ok
          THEN /\ fetchRet' = FailedFetch(fetch, LeafErr("Teams.ListTeams"))
               /\ pc' = "returned"
               /\ UNCHANGED fetch
          ELSE LET resp     == PlatformTeams(platform, fetch.page)
                   allTeams == AppendTeams(fetch.allTeams, resp.teams)
               IN  IF resp.NextPage = 0
                   THEN /\ fetch' = [fetch EXCEPT !.allTeams = allTeams]
                        /\ fetchRet' = CompletedFetch(fetch, allTeams)
                        /\ pc' = "returned"
                   ELSE /\ fetch' = [fetch EXCEPT !.allTeams = allTeams,
                                                  !.page = FollowNextPage(@, resp)]
                        /\ pc' = "list_teams"
                        /\ UNCHANGED fetchRet
  /\ UNCHANGED <<earlier, config, configureRet, request, platform, pe, frame, invocations,
                 evalRet, sinkCalls, response>>

----------------------------------------------------------------------------
(* CompliancePlugin.Eval (main.go:110-169) with the FetchData it calls, the *)
(* config-based revision (main.go:220-251).                                 *)

(* Eval up to the FetchData call *)
PluginEval(policyPaths) ==
  /\ pc = "idle"
  /\ request' = policyPaths
  /\ fetch' = [variant |-> "config", organization |-> CfgGet(config, "organization"),
               steps |-> <<>>, org |-> NilOrg, allTeams |-> <<>>, page |-> 0]
  /\ pc' = "fetch_data"
  /\ UNCHANGED <<earlier, config, configureRet, requests, platform, fetchRet, pe, frame,
                 invocations, evalRet, sinkCalls, response>>

(* The error FetchData returns after client.Organizations.Get returned err: *)
(* the error is logged and nil is returned (main.go:239-250).               *)
LegacyFetchError(err) == NilErr

(* FetchData(): two Steps, one Organizations.Get with config["organization"] *)
FetchDataLegacy ==
  /\ pc = "fetch_data"
  /\ \E ok \in BOOLEAN :
       LET org == IF ok THEN OrgOf(CfgGet(config, "organization")) ELSE NilOrg
           err == IF ok THEN NilErr ELSE LeafErr("Organizations.Get")
       IN  /\ requests' = Append(requests,
                [api |-> "Organizations.Get", org |-> CfgGet(config, "organization"),
                 page |-> 0, ok |-> ok])
           /\ fetch' = [fetch EXCEPT !.steps = StepsLegacy, !.org = org]
           /\ fetchRet' = [returned |-> TRUE, hasData |-> TRUE, org |-> org,
                           teams |-> <<>>, steps |-> StepsLegacy,
                           err |-> LegacyFetchError(err)]
  /\ pc' = "after_fetch"
  /\ UNCHANGED <<earlier, config, configureRet, request, platform, pe, frame, invocations,
                 evalRet, sinkCalls, response>>

(* main.go:125-139: the fetch-error check, then the evaluator is built with *)
(* the "Collect data" activity and Eval is entered.                         *)
PluginAfterFetch ==
  /\ pc = "after_fetch"
  /\ IF fetchRet.err # NilErr
     THEN /\ response' = [returned |-> TRUE, status |-> "FAILURE",
                          err |-> WrapErr("failed to fetch data", fetchRet.err)]
          /\ pc' = "returned"
          /\ UNCHANGED <<earlier, pe, frame>>
     ELSE /\ pe' = NewPolicyEvaluator("settings", CollectActivity(fetchRet.steps))
          /\ frame' = EvalPrologue("settings", "plugin", fetchRet.org, request)
          /\ pc' = "eval_loop"
          /\ UNCHANGED response
  /\ UNCHANGED <<earlier, config, configureRet, request, requests, platform, fetch, fetchRet,
                 invocations, evalRet, sinkCalls>>

(* main.go:141-148: a non-nil evaluation error ends the run *)
PluginAfterEval ==
  /\ pc = "after_eval"
  /\ IF evalRet.err # NilErr
     THEN /\ response' = [returned |-> TRUE, status |-> "FAILURE", err |-> evalRet.err]
          /\ pc' = "returned"
     ELSE /\ pc' = "send_observations"
          /\ UNCHANGED response
  /\ UNCHANGED <<earlier, config, configureRet, request, requests, platform, fetch, fetchRet, pe,
                 frame, invocations, evalRet, sinkCalls>>

(* main.go:150-155: a failed CreateObservations ends the run; the variant   *)
(* CreateObservationsIgnoringFailure only logs the failure and goes on.     *)
CreateObservationsIgnoringFailure ==
  /\ pc = "send_observations"
  /\ \E ok \in BOOLEAN :
       sinkCalls' = Append(sinkCalls,
         [call |-> "CreateObservations", payload |-> pe.observations, ok |-> ok])
  /\ pc' = "send_findings"
  /\ UNCHANGED <<earlier, config, configureRet, request, requests, platform, fetch, fetchRet, pe,
                 frame, invocations, evalRet, response>>

CreateObservations ==
  /\ pc = "send_observations"
  /\ \E ok \in BOOLEAN :
       /\ sinkCalls' = Append(sinkCalls,
            [call |-> "CreateObservations", payload |-> pe.observations, ok |-> ok])
       /\ IF ok
          THEN /\ pc' = "send_findings"
               /\ UNCHANGED response
          ELSE /\ response' = [returned |-> TRUE, status |-> "FAILURE",
                               err |-> LeafErr("CreateObservations")]
               /\ pc' = "returned"
  /\ UNCHANGED <<earlier, config, configureRet, request, requests, platform, fetch, fetchRet, pe,
                 frame, invocations, evalRet>>

(* main.go:157-168 *)
CreateFindings ==
  /\ pc = "send_findings"
  /\ \E ok \in BOOLEAN :
       /\ sinkCalls' = Append(sinkCalls,
            [call |-> "CreateFindings", payload |-> pe.findings, ok |-> ok])
       /\ response' = IF ok
                      THEN [returned |-> TRUE, status |-> evalRet.status, err |-> NilErr]
                      ELSE [returned |-> TRUE, status |-> "FAILURE",
                            err |-> LeafErr("CreateFindings")]
  /\ pc' = "returned"
  /\ UNCHANGED <<earlier, config, configureRet, request, requests, platform, fetch, fetchRet, pe,
                 frame, invocations, evalRet>>

(* The caller has its result; the process waits for the next call with only *)
(* the plugin's configuration kept.                                         *)
Return ==
  /\ pc = "returned"
  /\ pc' = "idle"
  /\ request' = <<>>
  /\ requests' = <<>>
  /\ platform' = 0
  /\ fetch' = NoFetch
  /\ fetchRet' = NoFetchRet
  /\ pe' = NoPe
  /\ frame' = NoFrame
  /\ invocations' = <<>>
  /\ evalRet' = NoRet
  /\ sinkCalls' = <<>>
  /\ response' = NoRet
  /\ earlier' = <<>>
  /\ UNCHANGED <<config, configureRet>>

Next ==
  \/ \E cfg \in PassedConfigs : Configure(cfg)
  \/ \E paths \in PathSeqs : PluginEval(paths)
  \/ FetchDataLegacy
  \/ PluginAfterFetch
  \/ EvalIterate
  \/ EvalFinish
  \/ PluginAfterEval
  \/ CreateObservations
  \/ CreateFindings
  \/ \E total \in 0..MaxTeams : TestFetchData(TestOrgId, total)
  \/ OrganizationsGet
  \/ ListTeams
  \/ \E variant \in Variants, org \in {NilOrg, OrgOf(TestOrgId)}, paths \in PathSeqs :
       TestEval(variant, org, paths)
  \/ TestEvalAgain
  \/ Return

Spec == Init /\ [][Next]_vars

----------------------------------------------------------------------------
(* Vocabulary of the properties *)

Count(seq, e) == Cardinality({k \in 1..Len(seq) : seq[k] = e})

Verdicts == {"v1", "v2", "v3"}

FailedPaths(paths) == {i \in 1..Len(paths) : EngineErr(paths[i]) # NilErr}

SucceededPaths(paths) == (1..Len(paths)) \ FailedPaths(paths)

(* How often verdict v is returned by the succeeding bundles of paths *)
SucceededCount(paths, v) ==
  Cardinality({ik \in (1..Len(paths)) \X (1..2) :
                 /\ ik[1] \in SucceededPaths(paths)
                 /\ ik[2] <= Len(EngineVerdicts(paths[ik[1]]))
                 /\ EngineVerdicts(paths[ik[1]])[ik[2]] = v})

(* The evaluator's collections keep every succeeding bundle's results *)
KeepsSucceeded(paths) ==
  \A v \in Verdicts :
    IF pe.variant = "evidence"
    THEN Count(pe.evidences, << "evidence", v >>) >= SucceededCount(paths, v)
    ELSE /\ Count(pe.observations, << "observation", v >>) >= SucceededCount(paths, v)
         /\ Count(pe.findings, << "finding", v >>) >= SucceededCount(paths, v)

TeamRequests == SelectSeq(requests, LAMBDA r : r.api = "Teams.ListTeams")

SomeRequestFailed == \E k \in 1..Len(requests) : ~requests[k].ok

----------------------------------------------------------------------------
(* C1: in PolicyEvaluator.Eval the policy engine is invoked exactly once    *)
(* for each bundle path, in the order supplied, without retry; a failing    *)
(* invocation never prevents a later one, and Eval returns after exactly    *)
(* len(policyPaths) invocations.                                            *)
C1_EngineInvokedOncePerPathInOrder ==
  frame.variant # "none" =>
    /\ Len(invocations) <= Len(frame.policyPaths)
    /\ \A k \in 1..Len(invocations) : invocations[k].path = frame.policyPaths[k]
    /\ evalRet.returned => Len(invocations) = Len(frame.policyPaths)

C1_Witness ==
  /\ evalRet.returned
  /\ Len(frame.policyPaths) = 2
  /\ EngineErr(frame.policyPaths[1]) # NilErr
  /\ EngineErr(frame.policyPaths[2]) = NilErr
  /\ Len(invocations) = 2
  /\ invocations[2].path = frame.policyPaths[2]

(* C3: PolicyEvaluator.Eval returns a non-nil combined error exactly when   *)
(* some invocation failed, and after it returns the evaluator's collections *)
(* still hold the results of every path whose invocation succeeded.         *)
C3_CombinedErrorAndSurvivingResults ==
  evalRet.returned =>
    /\ (evalRet.err # NilErr) <=> (FailedPaths(frame.policyPaths) # {})
    /\ KeepsSucceeded(frame.policyPaths)

C3_Witness ==
  /\ evalRet.returned
  /\ evalRet.err # NilErr
  /\ Len(frame.policyPaths) = 2
  /\ frame.policyPaths[1] = "ok_b"
  /\ frame.policyPaths[2] = "bad"
  /\ IF pe.variant = "evidence"
     THEN pe.evidences = Tagged("evidence", EngineVerdicts("ok_b"))
     ELSE pe.findings = Tagged("finding", EngineVerdicts("ok_b"))

(* C4: Eval with an empty bundle-path sequence invokes the policy engine    *)
(* zero times, returns a nil error and leaves the evaluator's collections   *)
(* empty, whatever the organization snapshot.                               *)
C4_EmptyPathsNothingToFail ==
  (evalRet.returned /\ frame.policyPaths = <<>>) =>
    /\ invocations = <<>>
    /\ evalRet.err = NilErr
    /\ pe.evidences = <<>>
    /\ pe.observations = <<>>
    /\ pe.findings = <<>>

C4_Witness ==
  /\ evalRet.returned
  /\ frame.policyPaths = <<>>
  /\ ~frame.org.isNil
  /\ invocations = <<>>
  /\ evalRet.err = NilErr

(* C5: the status PolicyEvaluator.Eval returns is SUCCESS for every input,  *)
(* however many bundles failed; only the returned error tells of failures.  *)
C5_StatusAlwaysSuccess ==
  evalRet.returned => evalRet.status = "SUCCESS"

C5_Witness ==
  /\ evalRet.returned
  /\ Len(frame.policyPaths) = 2
  /\ FailedPaths(frame.policyPaths) = {1, 2}
  /\ evalRet.err # NilErr
  /\ evalRet.status = "SUCCESS"

(* C2: in a run of CompliancePlugin.Eval whose fetch succeeds, in which at  *)
(* least one bundle fails and at least one other succeeds, the evidence of  *)
(* the succeeding bundles is still handed to the evidence sink, together    *)
(* with the combined error returned to the caller.                          *)
C2_PartialEvidenceReachesSink ==
  ( /\ response.returned
    /\ frame.caller = "plugin"
    /\ ~fetchRet.org.isNil
    /\ FailedPaths(frame.policyPaths) # {}
    /\ \E i \in SucceededPaths(frame.policyPaths) :
         EngineVerdicts(frame.policyPaths[i]) # <<>> )
  =>
    /\ response.err # NilErr
    /\ \E k \in 1..Len(sinkCalls) :
         /\ sinkCalls[k].call = "CreateObservations"
         /\ sinkCalls[k].payload = pe.observations
         /\ sinkCalls[k].payload # <<>>

(* C6: FetchData is fail-fast: once the organization request or a team-page *)
(* request has failed, FetchData returns a non-nil error and no snapshot,   *)
(* and the failed request is the last one it issued.                        *)
C6_FetchDataFailFast ==
  (fetchRet.returned /\ SomeRequestFailed) =>
    /\ fetchRet.err # NilErr
    /\ ~fetchRet.hasData
    /\ fetchRet.teams = <<>>
    /\ \A k \in 1..Len(requests) : ~requests[k].ok => k = Len(requests)

(* C7: in CompliancePlugin.Eval, when the platform rejects the organization *)
(* fetch, the run ends with status FAILURE and a fetch error, and neither   *)
(* the policy engine nor the evidence sink is invoked in that run.          *)
C7_RejectedFetchEndsRun ==
  (fetch.variant = "config" /\ SomeRequestFailed) =>
    /\ invocations = <<>>
    /\ sinkCalls = <<>>
    /\ pc \in {"after_fetch", "returned"}
    /\ response.returned =>
         /\ response.status = "FAILURE"
         /\ response.err = WrapErr("failed to fetch data", LeafErr("Organizations.Get"))

(* C8: when every request succeeds, the client-based FetchData requests     *)
(* each page of the platform's chain exactly once, following the reported   *)
(* next page from the first page on, stops at the page reporting NextPage   *)
(* 0, and returns exactly the platform's teams in page order, none missing  *)
(* and none duplicated, whether or not the last page is full.               *)
PagesOf(total) == IF total = 0 THEN 1 ELSE (total + PerPage - 1) \div PerPage

C8_PaginationConcatenatesAllPages ==
  (fetch.variant = "client" /\ ~SomeRequestFailed) =>
    /\ Len(TeamRequests) <= PagesOf(platform)
    /\ \A k \in 1..Len(TeamRequests) :
         /\ PageNo(TeamRequests[k].page) = k
         /\ TeamRequests[k].page =
              IF k = 1 THEN 0
              ELSE PlatformTeams(platform, TeamRequests[k - 1].page).NextPage
    /\ fetchRet.returned =>
         /\ fetchRet.err = NilErr
         /\ Len(TeamRequests) = PagesOf(platform)
         /\ fetchRet.teams = [i \in 1..platform |-> i]

C8_Witness ==
  /\ fetchRet.returned
  /\ fetchRet.err = NilErr
  /\ platform = 240
  /\ Len(TeamRequests) = 3
  /\ Len(PlatformTeams(platform, 3).teams) = 40
  /\ Len(fetchRet.teams) = 240
  /\ \A i \in 1..240 : fetchRet.teams[i] = i

(* C9, as claimed: FetchData returns the same ordered list of Steps to its  *)
(* caller whether the organization and team requests succeed or fail.       *)
ExpectedSteps == IF fetch.variant = "client" THEN StepsClient ELSE StepsLegacy

C9_StepsReturnedWhateverTheOutcome ==
  fetchRet.returned => fetchRet.steps = ExpectedSteps

(* C9, amended: FetchData builds the same ordered list of Steps before any  *)
(* request, whatever the outcome of the requests; it returns that list      *)
(* whenever it returns a nil error (the config-based FetchData always       *)
(* does), and the client-based FetchData returns no Steps (nil) together    *)
(* with the error of a failed request.                                      *)
C9_StepsBuiltAlwaysReturnedOnSuccess ==
  /\ requests # <<>> /\ fetch.variant # "none" => fetch.steps = ExpectedSteps
  /\ fetchRet.returned =>
       /\ fetchRet.err = NilErr => fetchRet.steps = ExpectedSteps
       /\ fetchRet.err # NilErr => fetch.variant = "client" /\ fetchRet.steps = <<>>
       /\ fetch.variant = "config" => fetchRet.err = NilErr

C9_Witness ==
  /\ fetchRet.returned
  /\ fetch.variant = "client"
  /\ Len(requests) = 3
  /\ ~requests[3].ok
  /\ fetch.steps = StepsClient
  /\ fetchRet.steps = <<>>
  /\ fetchRet.err # NilErr

(* C10: a configuration with a missing required key or a malformed value is *)
(* fatal: Configure reports the failure to its caller, and no later Eval of *)
(* that plugin issues a network call with that configuration.               *)
C10_InvalidConfigurationIsFatal ==
  (configureRet.called /\ ConfigErrored(config)) =>
    /\ configureRet.err # NilErr
    /\ requests = <<>>

(* C11: within one PolicyEvaluator.Eval call the provenance scaffolding     *)
(* (subjects, components, inventory items, actors) and the activities are   *)
(* built once before the loop from the snapshot, and the very same values   *)
(* are passed to the policy engine for every bundle path; no iteration      *)
(* reassigns them.                                                          *)
C11_ScaffoldingSharedByAllBundles ==
  frame.variant # "none" =>
    /\ frame.scaffolding = Scaffolding(frame.variant, frame.org)
    /\ frame.activities = CompileActivities
    /\ \A i \in 1..Len(invocations) :
         /\ invocations[i].scaffolding = frame.scaffolding
         /\ invocations[i].activities = frame.activities
         /\ \A j \in 1..Len(invocations) :
              /\ invocations[i].scaffolding = invocations[j].scaffolding
              /\ invocations[i].activities = invocations[j].activities

C11_Witness ==
  /\ evalRet.returned
  /\ Len(invocations) = 2
  /\ invocations[1].path # invocations[2].path
  /\ EngineErr(invocations[1].path) # NilErr
  /\ ~frame.org.isNil
  /\ invocations[1].scaffolding = invocations[2].scaffolding
  /\ invocations[2].scaffolding = Scaffolding(frame.variant, frame.org)

(* C12: for every bundle, the activity list PolicyEvaluator.Eval passes to  *)
(* the policy engine contains the "Collect data" activity, with the         *)
(* Fetcher's Steps, that NewPolicyEvaluator was given as stepActivities.    *)
C12_CollectActivityReachesEngine ==
  \A k \in 1..Len(invocations) :
    \A a \in 1..Len(pe.stepActivities) :
      \E b \in 1..Len(invocations[k].activities) :
        invocations[k].activities[b] = pe.stepActivities[a]

(* C13: transmission to the evidence sink is never retried and its failure  *)
(* is terminal: in one CompliancePlugin.Eval each of CreateObservations and *)
(* CreateFindings is called at most once, CreateObservations first; when a  *)
(* call fails the run returns FAILURE with that sink error, no further sink *)
(* call is made, and the evidence the evaluator holds is left unchanged.    *)
C13_SinkCalledOnceFailureTerminal ==
  /\ Len(sinkCalls) <= 2
  /\ \A k \in 1..Len(sinkCalls) :
       /\ sinkCalls[k].call = IF k = 1 THEN "CreateObservations" ELSE "CreateFindings"
       /\ sinkCalls[k].payload =
            IF k = 1 THEN frame.observations ELSE frame.findings
       /\ ~sinkCalls[k].ok =>
            /\ k = Len(sinkCalls)
            /\ pc = "returned"
            /\ response.returned
            /\ response.status = "FAILURE"
            /\ response.err = LeafErr(sinkCalls[k].call)
  /\ sinkCalls # <<>> =>
       /\ pe.observations = frame.observations
       /\ pe.findings = frame.findings

C13_Witness ==
  /\ Len(sinkCalls) = 2
  /\ sinkCalls[1].ok
  /\ ~sinkCalls[2].ok
  /\ sinkCalls[2].payload # <<>>
  /\ pe.findings = sinkCalls[2].payload
  /\ response.returned
  /\ response.status = "FAILURE"
  /\ response.err = LeafErr("CreateFindings")

(* C14: the combined error PolicyEvaluator.Eval returns loses no cause:     *)
(* when k bundles fail it joins exactly those k per-bundle errors, in       *)
(* bundle order, each of them individually recoverable by unwrapping.       *)
RECURSIVE Causes(_)
(* The leaf errors reachable from e through Unwrap, depth first, in order:  *)
(* what errors.Is / errors.As visit and what Error() prints line by line.   *)
Causes(e) ==
  IF e.kind = "nil" THEN <<>>
  ELSE IF e.kind = "leaf" THEN <<e>>
  ELSE IF Len(e.errs) = 1 THEN Causes(e.errs[1])
  ELSE Causes(e.errs[1]) \o Causes(e.errs[2])

RECURSIVE BundleErrors(_)
(* The errors of the failing bundles of paths, in bundle order *)
BundleErrors(paths) ==
  IF paths = <<>> THEN <<>>
  ELSE (IF EngineErr(Head(paths)) # NilErr THEN <<EngineErr(Head(paths))>> ELSE <<>>)
       \o BundleErrors(Tail(paths))

C14_CombinedErrorKeepsEveryCause ==
  evalRet.returned =>
    /\ Causes(evalRet.err) = BundleErrors(frame.policyPaths)
    /\ Len(Causes(evalRet.err)) = Cardinality(FailedPaths(frame.policyPaths))
    /\ evalRet.err.kind \in {"nil", "join"}

C14_Witness ==
  /\ evalRet.returned
  /\ frame.policyPaths = << "partial", "bad" >>
  /\ Causes(evalRet.err) = << LeafErr("partial"), LeafErr("bad") >>

(* C15: PolicyEvaluator.Eval is idempotent: called again with the same      *)
(* snapshot and the same bundle paths on the same evaluator, against the    *)
(* deterministic engine, it leaves collections equal to those of the call   *)
(* before (in the same order, hence also up to ordering): the second call   *)
(* replaces the evaluator's collections and does not append to them.        *)
C15_EvalTwiceSameCollections ==
  evalRet.returned =>
    \A k \in 1..Len(earlier) : HeldCollections(pe) = earlier[k]

C15_Witness ==
  /\ evalRet.returned
  /\ Len(earlier) = 1
  /\ frame.policyPaths = << "ok_b", "partial" >>
  /\ Len(invocations) = 2
  /\ pe.variant = "evidence"
  /\ Len(pe.evidences) = 3
  /\ earlier[1].evidences = pe.evidences

(* C16, as claimed: after PolicyEvaluator.Eval returns, each collection is  *)
(* the concatenation, in the order of the bundle paths, of the results      *)
(* returned by the bundles whose invocation succeeded.                      *)
RECURSIVE ResultsOf(_, _, _)
(* The tagged results of the bundles of paths, in order; those of a failing *)
(* bundle only when withFailed.                                             *)
ResultsOf(paths, tag, withFailed) ==
  IF paths = <<>> THEN <<>>
  ELSE (IF withFailed \/ EngineErr(Head(paths)) = NilErr
        THEN Tagged(tag, EngineVerdicts(Head(paths))) ELSE <<>>)
       \o ResultsOf(Tail(paths), tag, withFailed)

HoldsResults(withFailed) ==
  IF pe.variant = "evidence"
  THEN /\ pe.evidences = ResultsOf(frame.policyPaths, "evidence", withFailed)
       /\ pe.observations = <<>>
       /\ pe.findings = <<>>
  ELSE /\ pe.evidences = <<>>
       /\ pe.observations = ResultsOf(frame.policyPaths, "observation", withFailed)
       /\ pe.findings = ResultsOf(frame.policyPaths, "finding", withFailed)

HasOrganizationIdentifier(ctx) ==
  \E k \in DOMAIN ctx \cap {"organization", "organization-name"} :
    ctx[k] = GetLogin(frame.org)

HasBundlePath(ctx, path) ==
  "_policy_path" \in DOMAIN ctx /\ ctx["_policy_path"] = path

HasTags(ctx) ==
  /\ {"provider", "type"} \subseteq DOMAIN ctx
  /\ ctx["provider"] = "github"
  /\ ctx["type"] = "organization"

C17_ContextMapNamesOrganizationAndBundle ==
  /\ \A i \in 1..Len(invocations) :
       /\ HasTags(invocations[i].context)
       /\ HasOrganizationIdentifier(invocations[i].context)
       /\ HasBundlePath(invocations[i].context, invocations[i].path)
  /\ \A i, j \in 1..Len(invocations) :
       invocations[i].path # invocations[j].path =>
         invocations[i].context # invocations[j].context

(* C17, amended: every context map carries the provider tag "github" and    *)
(* the type tag "organization". The evidence revision adds only the         *)
(* organization login under "organization" and no bundle path, so all       *)
(* bundles of a run get the same map. The observation/finding revisions add *)
(* "organization-name" and the bundle's own path under "_policy_path", so   *)
(* their maps differ between different paths; "organization-name" is the    *)
(* login in the settings revision and the display name (GetName), not the   *)
(* identifier, in the other.                                                *)
C17_ContextMapPerRevision ==
  \A i \in 1..Len(invocations) :
    LET ctx == invocations[i].context
    IN /\ HasTags(ctx)
       /\ IF frame.variant = "evidence"
          THEN /\ DOMAIN ctx = {"provider", "type", "organization"}
               /\ ctx["organization"] = GetLogin(frame.org)
               /\ \A j \in 1..Len(invocations) : invocations[j].context = ctx
          ELSE /\ DOMAIN ctx = {"provider", "type", "organization-name", "_policy_path"}
               /\ ctx["_policy_path"] = invocations[i].path
               /\ ctx["organization-name"] =
                    (IF frame.variant = "obsfind" THEN GetName(frame.org)
                     ELSE GetLogin(frame.org))
               /\ \A j \in 1..Len(invocations) :
                    invocations[j].path # invocations[i].path =>
                      invocations[j].context # ctx

C17_Witness ==
  /\ evalRet.returned
  /\ frame.variant = "evidence"
  /\ Len(invocations) = 2
  /\ invocations[1].path = "ok_a" /\ invocations[2].path = "bad"
  /\ invocations[1].context = invocations[2].context
  /\ ~ HasBundlePath(invocations[1].context, "ok_a")

====
